---------------------------- MODULE Spec2Model ----------------------------
(***************************************************************************)
(* A model of the lunar-lander game of src/game.js: the terrain generator, *)
(* the lander's per-frame physics and the landing/crash classifier,        *)
(* driven by the browser's keydown/keyup and animation-frame callbacks.    *)
(*                                                                         *)
(* Numbers.  The program computes in IEEE doubles.  The model writes a     *)
(* length or a velocity as a record [i, f]: i whole pixels (the floor of   *)
(* the value) and f billionths of a pixel, 0 <= f < Frac.  Sums and        *)
(* differences of such numbers are exact.  The increments of the thrust,   *)
(* 0.06 * sin and 0.06 * cos, are rounded to the nearest billionth, and    *)
(* the interpolation of the terrain is rounded down to a billionth; the    *)
(* raw heights of the terrain are multiples of a billionth and are         *)
(* computed exactly.  Angles count tenths of a degree (the program's       *)
(* angles are multiples of 2.5, exact in doubles), values returned by      *)
(* Math.random() count thousandths.  Terrain point coordinates, fuel and   *)
(* score are whole numbers, as in the program.                             *)
(*                                                                         *)
(* The rounding of the thrust increments sets the numbers of the model     *)
(* apart from the doubles: by at most a billionth in the velocity for each *)
(* frame of thrust so far (VelDrift), by the sum of that over the frames   *)
(* in the position (PosDrift), and by the steepest slope of a terrain      *)
(* times that in the height of the ground under the lander                 *)
(* (ContactDrift).  A lander that has not thrust has the numbers of the    *)
(* program up to the rounding errors of the doubles.  Where the program    *)
(* compares two numbers that the model finds further apart than their      *)
(* drift, the model decides as the program does.  Where the model finds    *)
(* them within their drift, equal when there is none, the program may      *)
(* decide either way (a sum like 0.5 + 139 * 0.025 is the double           *)
(* 3.97499999999999, printed "3.97", where the decimal sum is 3.975): the  *)
(* model then allows both outcomes, and likewise both results of a         *)
(* rounding whose value is within its drift of half way.  Operators that   *)
(* hold such a decision return the set of the values it may take.          *)
(*                                                                         *)
(* Callbacks.  The keydown and keyup listeners and loop() are callbacks of *)
(* the page's single event loop: each runs to completion, so each is one   *)
(* action.  draw() changes no state of the game and is left out.  The      *)
(* script itself calls resetGame() and then loop(): the first update()     *)
(* has run when the first callback can.                                    *)
(*                                                                         *)
(* Inputs.  The draws of Math.random() during one resetGame() are one of   *)
(* NumSeeds fixed sequences.  The listeners take any event at any time;    *)
(* the runs that are explored deliver at most MaxKeyEvents key events,     *)
(* between two frames, after every EventPeriod-th frame up to              *)
(* LastEventFrame and at any time once the lander has landed or crashed    *)
(* (EventDue), or follow a second such schedule (TiltDue).                 *)
(***************************************************************************)
EXTENDS Integers, Sequences

\* ---- units ---------------------------------------------------------------
Frac == 10^9            \* billionths in a pixel
Micro == 10^6           \* millionths in a pixel
AngleScale == 10^1      \* model units per degree
RandomScale == 10^3     \* model units of a Math.random() value of 1.0

\* ---- arithmetic of the host language ----------------------------------
\* The whole number n.
Whole(n) == [i |-> n, f |-> 0]

\* The number of t billionths.
Nano(t) == [i |-> t \div Frac, f |-> t % Frac]

\* a + b
Plus(a, b) ==
  [i |-> a.i + b.i + (a.f + b.f) \div Frac, f |-> (a.f + b.f) % Frac]

\* -a
Neg(a) ==
  IF a.f = 0 THEN [i |-> 0 - a.i, f |-> 0]
  ELSE [i |-> 0 - a.i - 1, f |-> Frac - a.f]

\* a - b
Minus(a, b) == Plus(a, Neg(b))

\* a lies below b.
Less(a, b) == a.i < b.i \/ (a.i = b.i /\ a.f < b.f)

\* The values the program's a < b may take, where the model's a and b are
\* within tol billionths (together) of the program's.
Lt(a, b, tol) ==
  IF Less(Plus(a, Nano(tol)), b) THEN { TRUE }
  ELSE IF Less(Plus(b, Nano(tol)), a) THEN { FALSE }
  ELSE BOOLEAN

\* The values the program's a <= b (or b >= a) may take, likewise.
Le(a, b, tol) ==
  IF Less(Plus(a, Nano(tol)), b) THEN { TRUE }
  ELSE IF Less(Plus(b, Nano(tol)), a) THEN { FALSE }
  ELSE BOOLEAN

\* Math.abs
Abs(a) == IF a.i < 0 THEN Neg(a) ELSE a

\* Math.min and Math.max of two numbers.
MinOf(a, b) == IF Less(b, a) THEN b ELSE a

MaxOf(a, b) == IF Less(a, b) THEN b ELSE a

\* Math.min and Math.max of two whole numbers.
Min(a, b) == IF a <= b THEN a ELSE b

Max(a, b) == IF a >= b THEN a ELSE b

\* a / 2
Half(a) == [i |-> a.i \div 2, f |-> (a.i % 2) * (Frac \div 2) + a.f \div 2]

\* a * 100
Times100(a) ==
  [i |-> a.i * 100 + a.f \div (Frac \div 100), f |-> (a.f % (Frac \div 100)) * 100]

\* n * t billionths, for a whole number n and 0 <= t.
Scaled(n, t) ==
  LET q == n * (t \div 10^4)       \* counts 10^4 billionths
  IN  Plus([i |-> q \div 10^5, f |-> (q % 10^5) * 10^4], Nano(n * (t % 10^4)))

\* Math.round: floor(a + 0.5); up tells how the doubles round a value the
\* model finds half way.
Round(a, up) ==
  IF a.f > Frac \div 2 \/ (a.f = Frac \div 2 /\ up) THEN a.i + 1 ELSE a.i

\* The values Math.round may give a number the model has within tol
\* billionths.
Rounds(a, tol) ==
  { Round(Minus(a, Nano(tol)), up) : up \in BOOLEAN }
    \cup { Round(Plus(a, Nano(tol)), up) : up \in BOOLEAN }

\* JavaScript's % on whole numbers: the remainder takes the sign of the
\* dividend.
JsRem(a, b) == IF a >= 0 THEN a % b ELSE 0 - ((0 - a) % b)

\* ---- program constants (src/game.js:4-15), in model units -------------
W == 800
H == 600
GRAVITY == Nano(Frac \div 40)               \* 0.025 px/frame^2
THRUST_POWER == 6 * (Frac \div 100)         \* 0.06 px/frame^2, in billionths
ROTATE_SPEED == (25 * AngleScale) \div 10   \* 2.5 degrees/frame
MAX_LAND_VY == Whole(2)                     \* 2.0 px/frame
MAX_LAND_VX == Nano(12 * (Frac \div 10))    \* 1.2 px/frame
MAX_LAND_ANGLE == 15 * AngleScale           \* 15 degrees
INITIAL_FUEL == 500
PAD_WIDTH == 80
step == 10                      \* generateTerrain: const step = 10
LegOffset == 14                 \* update: landerBottom = lander.y + 14
FullTurn == 360 * AngleScale    \* the literal 360 of update

\* THRUST_POWER * sin(k * 2.5 degrees) for k = 0..36, in billionths, rounded
\* to the nearest.
ThrustSinTable ==
  << 0, 2617163, 5229345, 7831572, 10418891, 12986377, 15529143, 18042348,
     20521209, 22961006, 25357096, 27704917, 30000000, 32237977, 34414586,
     36525686, 38567257, 40535412, 42426407, 44236640, 45962667, 47601200,
     49149123, 50603487, 51961524, 53220650, 54378467, 55432772, 56381557,
     57223017, 57955550, 58577760, 59088465, 59486692, 59771682, 59942893,
     THRUST_POWER >>

\* THRUST_POWER * Math.sin(a), in billionths, for an angle a in tenths of a
\* degree that is a multiple of ROTATE_SPEED.
ThrustSin(a) ==
  LET n == ((a % FullTurn) \div ROTATE_SPEED)     \* 0..143
  IN  IF n <= 36 THEN ThrustSinTable[n + 1]
      ELSE IF n <= 72 THEN ThrustSinTable[72 - n + 1]
      ELSE IF n <= 108 THEN 0 - ThrustSinTable[n - 72 + 1]
      ELSE 0 - ThrustSinTable[144 - n + 1]

\* THRUST_POWER * Math.cos(a), in billionths.
ThrustCos(a) == ThrustSin(a + 90 * AngleScale)

\* ---- the distance of the model's numbers from the program's -------------
\* Of the velocity of the lander l, in billionths: each frame of thrust adds
\* an increment off by less than one billionth, and takes one unit of fuel.
VelDrift(l) == INITIAL_FUEL - l.fuel

\* Of the position of l after n frames: each frame has added the velocity.
PosDrift(l, n) == n * VelDrift(l)

\* The steepest slope of a terrain: its heights lie in [0.45 H, H], step
\* apart.
MaxSlope == (H - (H * 45) \div 100) \div step

\* Of landerBottom against groundY, the height of the terrain at lander.x.
ContactDrift(l, n) == (MaxSlope + 1) * PosDrift(l, n)

\* ---- Math.random() ----------------------------------------------------
\* The values a call of Math.random() may return, in thousandths: the ends
\* and the quarters of [0, 1).
RandomValues == << 0, 250, 500, 750, 999 >>

NumSeeds == 3

Seeds == 1 .. NumSeeds

\* The seeds of the terrains the page is loaded with where the terrain is
\* examined.
NumTerrainSeeds == 9

TerrainSeeds == 1 .. NumTerrainSeeds

AllSeeds == 1 .. Max(NumSeeds, NumTerrainSeeds)

\* generateTerrain draws 4 values and one per inner element of raw,
\* createLander one more.
NumDraws == 4 + (((W + 10 - 1) \div 10) + 1 - 2) + 1

\* The sequence of values Math.random() returns during one resetGame():
\* one fixed sequence over RandomValues per seed.
Stream(seed) ==
  [n \in 1 .. NumDraws |->
     RandomValues[((seed * n + (n * n) \div 3 + (seed \div 5) * (n \div 2))
                     % Len(RandomValues)) + 1]]

\* (Math.random() - 0.5) * amount, for a draw r in thousandths and an amount
\* in millionths of a pixel.
Jitter(r, amount) == Scaled(r - RandomScale \div 2, amount)

\* ---- terrain generation (generateTerrain) ------------------------------
segs == ((W + step - 1) \div step) + 1

\* An element of `raw` no assignment has reached yet (JavaScript: undefined,
\* which arithmetic turns into NaN).
NaN == [i |-> 0, f |-> 0 - 1]

RECURSIVE displace_NoClamp(_, _, _, _, _)
displace_NoClamp(rnd, st, lo, hi, rough) ==
  IF hi - lo <= 1 \/ st.k > NumDraws THEN st
  ELSE LET mid == (lo + hi) \div 2
           sum == IF st.raw[lo] = NaN \/ st.raw[hi] = NaN THEN NaN
                  ELSE Plus(Half(Plus(st.raw[lo], st.raw[hi])),
                            Jitter(rnd[st.k], rough))
           st1 == [raw |-> [st.raw EXCEPT ![mid] = sum], k |-> st.k + 1]
           st2 == displace_NoClamp(rnd, st1, lo, mid, (rough * 6) \div 10)
       IN  displace_NoClamp(rnd, st2, mid, hi, (rough * 6) \div 10)

\* One call of displace(lo, hi, rough), rough in millionths of a pixel.
\* st = [raw, k]: the raw heights and the index of the next draw of rnd.
\* rnd holds NumDraws draws; the test of st.k never succeeds for a terrain
\* of segs points (it makes the model checker compute st before it
\* descends).
RECURSIVE displace(_, _, _, _, _)
displace(rnd, st, lo, hi, rough) ==
  IF hi - lo <= 1 \/ st.k > NumDraws THEN st
  ELSE LET mid == (lo + hi) \div 2
           sum == IF st.raw[lo] = NaN \/ st.raw[hi] = NaN THEN NaN
                  ELSE Plus(Half(Plus(st.raw[lo], st.raw[hi])),
                            Jitter(rnd[st.k], rough))
           clamped == IF sum = NaN THEN NaN
                      ELSE MaxOf(Whole((H * 45) \div 100),
                                 MinOf(Whole(H - 20), sum))
           st1 == [raw |-> [st.raw EXCEPT ![mid] = clamped], k |-> st.k + 1]
           st2 == displace(rnd, st1, lo, mid, (rough * 6) \div 10)
       IN  displace(rnd, st2, mid, hi, (rough * 6) \div 10)

\* Math.round(raw[i]) || padY
RoundedOr(v, padY_, up) ==
  IF v = NaN THEN padY_
  ELSE IF Round(v, up) = 0 THEN padY_ ELSE Round(v, up)

\* const padX and const padY of generateTerrain().
drawPadX(rnd) == (rnd[1] * (W \div 2)) \div RandomScale + W \div 5

drawPadY(rnd) == (rnd[2] * (H \div 4)) \div RandomScale + (H * 55) \div 100

\* The array `raw` of generateTerrain() when the loop over the points
\* starts, for the pad height padY_.
rawHeights(rnd, padY_) ==
  LET raw0 == [n \in 0 .. segs - 1 |->
                 IF n = 0 THEN Plus(Whole(padY_), Jitter(rnd[3], 80 * Micro))
                 ELSE IF n = segs - 1
                      THEN Plus(Whole(padY_), Jitter(rnd[4], 80 * Micro))
                 ELSE NaN]
  IN  displace(rnd, [raw |-> raw0, k |-> 5], 0, segs - 1, 120 * Micro).raw

generateTerrain_OpenPad(rnd) ==
  LET padX_ == drawPadX(rnd)
      padY_ == drawPadY(rnd)
      raw == rawHeights(rnd, padY_)
      flat(n) == (n - 1) * step >= padX_ /\ (n - 1) * step < padX_ + PAD_WIDTH
      halves == { n \in 1 .. segs : ~flat(n) /\ raw[n - 1].f = Frac \div 2 }
  IN  { [points |-> [n \in 1 .. segs |->
                       IF flat(n)
                       THEN [x |-> (n - 1) * step, y |-> padY_]
                       ELSE [x |-> (n - 1) * step,
                             y |-> RoundedOr(raw[n - 1], padY_, n \in ups)]],
         padX |-> padX_,
         padY |-> padY_] : ups \in SUBSET halves }

\* generateTerrain() with the draws of rnd: the values { points, padX, padY }
\* it may return, one for each way the doubles round the raw heights that
\* lie half way between two whole numbers.
generateTerrain(rnd) ==
  LET padX_ == drawPadX(rnd)
      padY_ == drawPadY(rnd)
      raw == rawHeights(rnd, padY_)
      flat(n) == (n - 1) * step >= padX_ /\ (n - 1) * step <= padX_ + PAD_WIDTH
      halves == { n \in 1 .. segs : ~flat(n) /\ raw[n - 1].f = Frac \div 2 }
  IN  { [points |-> [n \in 1 .. segs |->
                       IF flat(n)
                       THEN [x |-> (n - 1) * step, y |-> padY_]
                       ELSE [x |-> (n - 1) * step,
                             y |-> RoundedOr(raw[n - 1], padY_, n \in ups)]],
         padX |-> padX_,
         padY |-> padY_] : ups \in SUBSET halves }

\* createLander() with the draw r for vx.
createLander(r) ==
  [x |-> Whole(W \div 2),
   y |-> Whole(80),
   vx |-> Jitter(r, (15 * Micro) \div 10),
   vy |-> Nano(Frac \div 2),
   angle |-> 0,
   fuel |-> INITIAL_FUEL,
   thrusting |-> FALSE,
   dead |-> FALSE,
   landed |-> FALSE]

\* What one resetGame() builds from the draws of each seed: one of the
\* terrains, and the lander.
Sessions ==
  [s \in AllSeeds |->
     [terrains |-> generateTerrain(Stream(s)),
      lander |-> createLander(Stream(s)[NumDraws])]]

\* The array `raw` each of them has filled.
Raws == [s \in AllSeeds |-> rawHeights(Stream(s), drawPadY(Stream(s)))]

\* ---- input -------------------------------------------------------------
\* The key codes the handlers tell apart.
Codes == { "ArrowLeft", "ArrowRight", "ArrowUp", "Space", "KeyR" }

\* The runs explored: MaxKeyEvents key events in a run, delivered only
\* after every EventPeriod-th frame up to LastEventFrame.
MaxKeyEvents == 2

EventPeriod == 36

LastEventFrame == 108

\* A second schedule, for short corrections of the attitude: MaxTiltEvents
\* key events, delivered only after the first frame, TiltFrames frames
\* later and after LastEventFrame frames.
MaxTiltEvents == 3

TiltFrames == 6

\* ---- state -------------------------------------------------------------
VARIABLES
  terrain,    \* let terrain: the points of the surface, x-sorted
  padX,       \* let padX
  padY,       \* let padY
  lander,     \* let lander
  score,      \* let score
  message,    \* let message: null, or the outcome shown
  keys,       \* const keys: the codes e with keys[e] true
  frames,     \* frames integrated since the last resetGame()
  resets,     \* resetGame() calls made by key events
  replaced,   \* what the latest resetGame() replaced: "none" at load, else
              \* a "new" lander (no frame yet), a "flying", "landed" or "dead" one
  nEvents     \* key events delivered

vars ==
  << terrain, padX, padY, lander, score, message, keys, frames, resets, replaced,
     nEvents >>

\* message = null
null == [text |-> "null", arg |-> 0, color |-> ""]

\* ---- physics and collision ---------------------------------------------
RECURSIVE Search_OffByOne(_, _, _, _)
Search_OffByOne(t, x, lo, hi) ==
  IF lo < hi
  THEN LET mid == (lo + hi) \div 2
       IN  IF ~Less(x, Whole(t[mid + 1].x))
           THEN Search_OffByOne(t, x, mid + 1, hi)
           ELSE Search_OffByOne(t, x, lo, mid)
  ELSE lo

\* terrainYAt's binary search for the segment: the final lo (0-based).  (For
\* an x the model finds on a terrain point the search takes the segment to
\* its right; the one to its left gives the same height.)
RECURSIVE Search(_, _, _, _)
Search(t, x, lo, hi) ==
  IF lo < hi
  THEN LET mid == (lo + hi) \div 2
       IN  IF ~Less(x, Whole(t[mid + 2].x))
           THEN Search(t, x, mid + 1, hi)
           ELSE Search(t, x, lo, mid)
  ELSE lo

\* (d / dx) * dy for 0 <= d <= dx and whole numbers dx > 0 (a divisor of
\* Frac) and dy, rounded down to a billionth.
Interpolate(d, dx, dy) ==
  LET whole == d.i * dy
      a == d.f \div 10^5
      b == d.f % 10^5
      q == (a * dy) \div dx             \* counts 10^5 billionths
      rest == (((a * dy) % dx) * 10^5 + b * dy) \div dx
  IN  Plus(Plus([i |-> whole \div dx, f |-> (whole % dx) * (Frac \div dx)],
                [i |-> q \div 10^4, f |-> (q % 10^4) * 10^5]),
           Nano(rest))

\* terrainYAt(x) on the terrain t (t[n + 1] is terrain[n]).
terrainYAt(t, x) ==
  IF Len(t) < 2 THEN Whole(H)
  ELSE LET lo == Search(t, x, 0, Len(t) - 2)
           p1 == t[lo + 1]
           p2 == t[Min(lo + 1, Len(t) - 1) + 1]
       IN  IF p2.x = p1.x THEN Whole(p1.y)
           ELSE Plus(Whole(p1.y),
                     Interpolate(Minus(x, Whole(p1.x)), p2.x - p1.x, p2.y - p1.y))

\* Rotation.
Rotate(l, k) ==
  LET a1 == IF "ArrowLeft" \in k THEN l.angle - ROTATE_SPEED ELSE l.angle
      a2 == IF "ArrowRight" \in k THEN a1 + ROTATE_SPEED ELSE a1
  IN  [l EXCEPT !.angle = a2]

Thrust_IgnoresFuel(l, k) ==
  IF "ArrowUp" \in k \/ "Space" \in k
  THEN [l EXCEPT !.thrusting = TRUE,
                 !.vx = Plus(l.vx, Nano(ThrustSin(l.angle))),
                 !.vy = Minus(l.vy, Nano(ThrustCos(l.angle))),
                 !.fuel = Max(0, l.fuel - 1)]
  ELSE [l EXCEPT !.thrusting = FALSE]

\* Thrust: cos(rad) and sin(rad) of rad = angle - 90 degrees are sin(angle)
\* and -cos(angle).
Thrust(l, k) ==
  LET thrusting == ("ArrowUp" \in k \/ "Space" \in k) /\ l.fuel > 0
  IN  IF thrusting
      THEN [l EXCEPT !.thrusting = TRUE,
                     !.vx = Plus(l.vx, Nano(ThrustSin(l.angle))),
                     !.vy = Minus(l.vy, Nano(ThrustCos(l.angle))),
                     !.fuel = Max(0, l.fuel - 1)]
      ELSE [l EXCEPT !.thrusting = FALSE]

\* Gravity.
Gravity(l) == [l EXCEPT !.vy = Plus(l.vy, GRAVITY)]

\* Move.
Move(l) == [l EXCEPT !.x = Plus(l.x, l.vx), !.y = Plus(l.y, l.vy)]

Wrap_RightOnly(l, n) ==
  { [l EXCEPT !.x = IF above THEN Whole(0) ELSE l.x] :
      above \in Lt(Whole(W), l.x, PosDrift(l, n)) }

\* Wrap horizontally, in the n-th frame: the landers the two tests may
\* leave.  (An x the first test has set to W is W itself, which the second
\* test leaves.  The x of a lander both tests have left is not beyond an
\* edge in the program: where it is in the model, within its drift, the
\* model takes the edge.)
Wrap(l, n) ==
  { [l EXCEPT !.x = IF below THEN Whole(W)
                    ELSE IF above THEN Whole(0)
                    ELSE MaxOf(Whole(0), MinOf(Whole(W), l.x))] :
      below \in Lt(l.x, Whole(0), PosDrift(l, n)),
      above \in Lt(Whole(W), l.x, PosDrift(l, n)) }

\* update() up to the collision check, in the n-th frame: the landers it
\* may reach it with.
Integrate(l, k, n) == Wrap(Move(Gravity(Thrust(Rotate(l, k), k))), n)

landerBottom_NoLegs(l) == l.y

landerBottom(l) == Plus(l.y, Whole(LegOffset))

\* The values of const onPad, in the n-th frame.
onPad(l, px, n) ==
  { a /\ b : a \in Le(Whole(px), l.x, PosDrift(l, n)),
              b \in Le(l.x, Whole(px + PAD_WIDTH), PosDrift(l, n)) }

normAngle_NoAdd(l) == JsRem(l.angle, FullTurn)

normAngle(l) == (JsRem(l.angle, FullTurn) + FullTurn) % FullTurn

angleDiff(l) == Min(normAngle(l), FullTurn - normAngle(l))

safeAngle(l) == angleDiff(l) <= MAX_LAND_ANGLE

safeSpeed_Swapped(l) ==
  { a /\ b : a \in Le(Abs(l.vy), MAX_LAND_VX, VelDrift(l)),
              b \in Le(Abs(l.vx), MAX_LAND_VY, VelDrift(l)) }

\* The values of const safeSpeed.
safeSpeed(l) ==
  { a /\ b : a \in Le(Abs(l.vy), MAX_LAND_VY, VelDrift(l)),
              b \in Le(Abs(l.vx), MAX_LAND_VX, VelDrift(l)) }

Land_KeepsVelocity(l, groundY) ==
  [l EXCEPT !.landed = TRUE, !.y = Minus(groundY, Whole(LegOffset))]

\* The landing branch: the lander it leaves.
Land(l, groundY) ==
  [l EXCEPT !.landed = TRUE,
            !.y = Minus(groundY, Whole(LegOffset)),
            !.vx = Whole(0),
            !.vy = Whole(0)]

\* The values of speedBonus, computed from the lander the landing branch
\* has left (its vy has been assigned: it has no drift).
speedBonus(l) == Rounds(Times100(Minus(MAX_LAND_VY, Abs(l.vy))), 0)

Crash_ZeroesVelocity(l, groundY) ==
  [l EXCEPT !.dead = TRUE,
            !.y = Minus(groundY, Whole(LegOffset)),
            !.vx = Whole(0),
            !.vy = Whole(0)]

Crash_NotDead(l, groundY) == [l EXCEPT !.y = Minus(groundY, Whole(LegOffset))]

\* The crash branch: the lander it leaves.
Crash(l, groundY) ==
  [l EXCEPT !.dead = TRUE, !.y = Minus(groundY, Whole(LegOffset))]

\* The values of Math.abs(v).toFixed(2), in hundredths, for a v the model
\* has within tol billionths.
ToFixed2(v, tol) == Rounds(Times100(Abs(v)), 100 * tol)

CrashMessage_AngleFirst(onPad_, safeAngle_, fixed) ==
  IF ~safeAngle_
  THEN [text |-> "CRASHED - tilted too far!", arg |-> 0, color |-> "#f77"]
  ELSE IF ~onPad_
  THEN [text |-> "CRASHED - missed the pad!", arg |-> 0, color |-> "#f77"]
  ELSE [text |-> "CRASHED - too fast!", arg |-> fixed, color |-> "#f77"]

\* The message of the crash branch, for the values of onPad and safeAngle
\* and the speed as toFixed(2) prints it.
CrashMessage(onPad_, safeAngle_, fixed) ==
  IF ~onPad_
  THEN [text |-> "CRASHED - missed the pad!", arg |-> 0, color |-> "#f77"]
  ELSE IF ~safeAngle_
  THEN [text |-> "CRASHED - tilted too far!", arg |-> 0, color |-> "#f77"]
  ELSE [text |-> "CRASHED - too fast!", arg |-> fixed, color |-> "#f77"]

LandedMessage(sc) == [text |-> "LANDED SAFELY!  Score: ", arg |-> sc, color |-> "#7f7"]

isOver_LandedOnly(l) == l.landed

isOver_DeadOnly(l) == l.dead

isOver_Inverted(l) == ~(l.dead \/ l.landed)

\* update()'s first test: the lander is dead or landed.
isOver(l) == l.dead \/ l.landed

\* The branch of update() under landerBottom >= groundY, for the lander m
\* the integration of the n-th frame has left: the landers, scores and
\* messages it may leave.
Collide(m, groundY, px, sc, n) ==
  { IF op /\ safeAngle(m) /\ ss
    THEN [lander |-> Land(m, groundY),
          score |-> m.fuel + bonus,
          message |-> LandedMessage(m.fuel + bonus)]
    ELSE [lander |-> Crash(m, groundY),
          score |-> sc,
          message |-> CrashMessage(op, safeAngle(m), fixed)] :
      op \in onPad(m, px, n), ss \in safeSpeed(m),
      bonus \in speedBonus(Land(m, groundY)),
      fixed \in ToFixed2(m.vy, VelDrift(m)) }

\* update() on the terrain t with the pad at px, the lander l, the keys k
\* held, the score sc and the message msg, as the n-th frame since
\* resetGame(): the landers, scores and messages it may leave.
Updated(t, px, l, k, sc, msg, n) ==
  IF isOver(l) THEN { [lander |-> l, score |-> sc, message |-> msg] }
  ELSE UNION UNION
         { { IF contact
             THEN Collide(m, terrainYAt(t, m.x), px, sc, n)
             ELSE { [lander |-> m, score |-> sc, message |-> msg] } :
               contact \in Le(terrainYAt(t, m.x), landerBottom(m),
                               ContactDrift(m, n)) } :
           m \in Integrate(l, k, n) }

\* ---- operations ---------------------------------------------------------
resetGame_LanderOnly(s) ==
  /\ UNCHANGED << terrain, padX, padY >>
  /\ lander' = Sessions[s].lander
  /\ score' = 0
  /\ message' = null

resetGame_KeepsOutcome(s) ==
  /\ \E t \in Sessions[s].terrains :
       /\ terrain' = t.points
       /\ padX' = t.padX
       /\ padY' = t.padY
  /\ lander' = Sessions[s].lander
  /\ UNCHANGED << score, message >>

\* resetGame() with the draws of seed s.
resetGame(s) ==
  /\ \E t \in Sessions[s].terrains :
       /\ terrain' = t.points
       /\ padX' = t.padX
       /\ padY' = t.padY
  /\ lander' = Sessions[s].lander
  /\ score' = 0
  /\ message' = null

\* The state after the script has run: no key held, resetGame(), and the
\* update() of the loop() call that ends the script.
Init ==
  /\ \E s \in Seeds :
       \E t \in Sessions[s].terrains :
         /\ terrain = t.points
         /\ padX = t.padX
         /\ padY = t.padY
         /\ \E u \in Updated(t.points, t.padX, Sessions[s].lander, {}, 0, null, 1) :
              /\ lander = u.lander
              /\ score = u.score
              /\ message = u.message
  /\ keys = {}
  /\ frames = 1
  /\ resets = 0
  /\ replaced = "none"
  /\ nEvents = 0

\* update(): one frame of loop().
update ==
  /\ UNCHANGED << terrain, padX, padY, keys, resets, replaced, nEvents >>
  /\ IF isOver(lander)
     THEN UNCHANGED << lander, score, message, frames >>
     ELSE /\ frames' = frames + 1
          /\ \E u \in Updated(terrain, padX, lander, keys, score, message, frames + 1) :
               /\ lander' = u.lander
               /\ score' = u.score
               /\ message' = u.message

\* The keydown listener, for the code c; s seeds the draws of resetGame().
keydown(c, s) ==
  /\ keys' = keys \cup {c}
  /\ nEvents' = nEvents + 1
  /\ IF c = "KeyR"
     THEN /\ resetGame(s)
          /\ frames' = 0
          /\ resets' = resets + 1
          /\ replaced' = IF lander.landed THEN "landed"
                         ELSE IF lander.dead THEN "dead"
                         ELSE IF frames > 0 THEN "flying"
                         ELSE "new"
     ELSE UNCHANGED << terrain, padX, padY, lander, score, message, frames, resets,
                       replaced >>

\* The keyup listener, for the code c.
keyup(c) ==
  /\ keys' = keys \ {c}
  /\ nEvents' = nEvents + 1
  /\ UNCHANGED << terrain, padX, padY, lander, score, message, frames, resets,
                  replaced >>

\* The runs explored deliver a key event now: the bound on the events of a
\* run and the frames after which they come.
EventDue ==
  /\ nEvents < MaxKeyEvents
  /\ \/ lander.dead
     \/ lander.landed
     \/ frames <= LastEventFrame /\ frames % EventPeriod = 0

\* The key events the runs explored deliver: a key that is up goes down, R
\* goes down whether up or down, a key that is down goes up.  (The other
\* events, a keydown of a held key and a keyup of a key that is up, change
\* nothing.)
Pressed(c) == c = "KeyR" \/ c \notin keys

Next ==
  \/ update
  \/ EventDue /\ \E c \in Codes, s \in Seeds : Pressed(c) /\ keydown(c, s)
  \/ EventDue /\ \E c \in keys : keyup(c)

Spec == Init /\ [][Next]_vars

\* ---- the same page under the second schedule of key events --------------
TiltDue ==
  /\ nEvents < MaxTiltEvents
  /\ \/ lander.dead
     \/ lander.landed
     \/ frames \in { 1, 1 + TiltFrames, LastEventFrame }

TiltNext ==
  \/ update
  \/ TiltDue /\ \E c \in Codes, s \in Seeds : Pressed(c) /\ keydown(c, s)
  \/ TiltDue /\ \E c \in keys : keyup(c)

TiltSpec == Init /\ [][TiltNext]_vars

\* ---- the same page loaded with more of the terrains ---------------------
\* The state after the script has run, for the draws of any of the
\* TerrainSeeds.
TerrainInit ==
  /\ \E s \in TerrainSeeds :
       \E t \in Sessions[s].terrains :
         /\ terrain = t.points
         /\ padX = t.padX
         /\ padY = t.padY
         /\ \E u \in Updated(t.points, t.padX, Sessions[s].lander, {}, 0, null, 1) :
              /\ lander = u.lander
              /\ score = u.score
              /\ message = u.message
  /\ keys = {}
  /\ frames = 1
  /\ resets = 0
  /\ replaced = "none"
  /\ nEvents = 0

TerrainSpec == TerrainInit /\ [][Next]_vars

\* ---- what the next frame does to the current state ----------------------
\* The lander is neither landed nor crashed.
Active == ~lander.dead /\ ~lander.landed

\* The lander as update() has moved it, before the horizontal wrap: its
\* angle, fuel, velocity and y are those the collision check reads.
Unwrapped == Move(Gravity(Thrust(Rotate(lander, keys), keys)))

\* landerBottom of that frame.
Bottom == Plus(Unwrapped.y, Whole(14))

\* A step that is update() on an active lander.
Tick == Active /\ frames' = frames + 1

\* groundY of the frame a Tick step has run: update() leaves the lander at
\* the x it has looked the terrain up at.
Ground == terrainYAt(terrain, lander'.x)

\* a < b in the program, for numbers the model has within tol billionths.
Under(a, b, tol) == Less(Plus(a, Nano(tol)), b)

\* a <= b may hold in the program, for such numbers.
UpTo(a, b, tol) == ~Less(Plus(b, Nano(tol)), a)

\* x, which the model has within tol, may lie on the pad.
OverPad(x, tol) ==
  UpTo(Whole(padX), x, tol) /\ UpTo(x, Whole(padX + PAD_WIDTH), tol)

\* x lies on the pad and off its two ends.
InsidePad(x, tol) ==
  Under(Whole(padX), x, tol) /\ Under(x, Whole(padX + PAD_WIDTH), tol)

\* The angle a is within tol of upright: of some multiple of 360 degrees.
Upright(a, tol) ==
  LET turns == (IF a < 0 THEN 0 - a ELSE a) \div (360 * AngleScale) + 1
  IN  \E n \in (0 - turns) .. turns :
        a - n * 360 * AngleScale <= tol /\ n * 360 * AngleScale - a <= tol

\* 1.2, the limit of the horizontal speed.
SafeVx == [i |-> 1, f |-> 200 * Micro]

\* The drift of the velocity, of the position and of the contact test in
\* the current state, and in the frame a Tick step runs.
VelSlack == VelDrift(lander)

PosSlack == PosDrift(lander, frames)

TickVelSlack == VelDrift(Unwrapped)

TickPosSlack == PosDrift(Unwrapped, frames + 1)

TickContactSlack == ContactDrift(Unwrapped, frames + 1)

\* The frame of a Tick step has its legs on or under the ground.
Touching == Under(Ground, Bottom, TickContactSlack)

\* It may have.
MayTouch == UpTo(Ground, Bottom, TickContactSlack)

\* The three landing conditions may hold of the lander a Tick step has
\* moved.
LandingOk ==
  /\ OverPad(lander'.x, TickPosSlack)
  /\ Upright(Unwrapped.angle, 15 * AngleScale)
  /\ UpTo(Abs(Unwrapped.vy), Whole(2), TickVelSlack)
  /\ UpTo(Abs(Unwrapped.vx), SafeVx, TickVelSlack)

\* They hold clear of their limits.
LandingClear ==
  /\ InsidePad(lander'.x, TickPosSlack)
  /\ Upright(Unwrapped.angle, 15 * AngleScale)
  /\ Under(Abs(Unwrapped.vy), Whole(2), TickVelSlack)
  /\ Under(Abs(Unwrapped.vx), SafeVx, TickVelSlack)

\* ---- C1 ------------------------------------------------------------------
\* C1: once the lander is landed or crashed, a frame (any step that is not
\* a key event), whatever keys are held, leaves the lander (x, y, vx, vy,
\* fuel, angle), the score and the message unchanged: no new outcome.
C1_TerminalImmutability ==
  [][ ((lander.landed \/ lander.dead) /\ nEvents' = nEvents)
        => (lander' = lander /\ score' = score /\ message' = message) ]_vars

\* A landed lander with thrust held and fuel left, which update() leaves alone.
C1_Witness ==
  /\ lander.landed
  /\ ("ArrowUp" \in keys \/ "Space" \in keys)
  /\ lander.fuel > 0

\* ---- C2 ------------------------------------------------------------------
\* C2: on every frame that ends in a safe landing the score is the fuel left
\* plus round((MAX_LAND_VY - |vy|) * 100), with vy the vertical speed at the
\* impact, before it is zeroed.
C2_ScoreUsesImpactSpeed ==
  [][ (Tick /\ lander'.landed)
        => \E bonus \in Rounds(Times100(Minus(Whole(2), Abs(Unwrapped.vy))),
                                100 * TickVelSlack) :
             score' = lander'.fuel + bonus ]_vars

\* ---- C3 ------------------------------------------------------------------
\* C3: a crashed lander's message names the first failing condition in the
\* order off the pad, unsafe angle, unsafe speed (a crash keeps x, angle and
\* the velocity of the impact): off the pad it is 'missed the pad' whatever
\* the angle and the speed, inside the pad and tilted it is 'tilted too
\* far', and 'too fast' is left for a lander over the pad, upright, with a
\* speed at or beyond a limit.
C3_CrashPrecedence ==
  lander.dead =>
    /\ message.text \in { "CRASHED - missed the pad!", "CRASHED - tilted too far!",
                          "CRASHED - too fast!" }
    /\ ~OverPad(lander.x, PosSlack) => message.text = "CRASHED - missed the pad!"
    /\ message.text = "CRASHED - missed the pad!" => ~InsidePad(lander.x, PosSlack)
    /\ (InsidePad(lander.x, PosSlack) /\ ~Upright(lander.angle, 15 * AngleScale))
         => message.text = "CRASHED - tilted too far!"
    /\ message.text = "CRASHED - tilted too far!"
         => (OverPad(lander.x, PosSlack) /\ ~Upright(lander.angle, 15 * AngleScale))
    /\ message.text = "CRASHED - too fast!"
         => /\ OverPad(lander.x, PosSlack)
            /\ Upright(lander.angle, 15 * AngleScale)
            /\ \/ UpTo(Whole(2), Abs(lander.vy), VelSlack)
               \/ UpTo(SafeVx, Abs(lander.vx), VelSlack)

\* Off the pad, tilted and too fast at once: reported as a missed pad.
C3_Witness ==
  /\ lander.dead
  /\ ~OverPad(lander.x, PosSlack)
  /\ ~Upright(lander.angle, 15 * AngleScale)
  /\ Under(Whole(2), Abs(lander.vy), VelSlack)
  /\ message.text = "CRASHED - missed the pad!"

\* ---- C4 ------------------------------------------------------------------
\* C4: on a frame with ground contact the lander becomes landed, and not
\* crashed, with y = groundY - 14 and vx = vy = 0, if it is on the pad,
\* within 15 degrees of upright, |vy| <= 2.0 and |vx| <= 1.2; if one of
\* these fails it does not become landed.  (A lander becomes landed where
\* contact and conditions hold clear of their limits, and only where they
\* hold.)
C4_LandingTransition ==
  [][ Tick
        => /\ (Touching /\ LandingClear) => lander'.landed
           /\ lander'.landed
                => /\ MayTouch
                   /\ LandingOk
                   /\ ~lander'.dead
                   /\ lander'.y = Minus(Ground, Whole(14))
                   /\ lander'.vx = Whole(0)
                   /\ lander'.vy = Whole(0) ]_vars

\* A lander at rest on the pad.
C4_Witness ==
  /\ lander.landed
  /\ ~lander.dead
  /\ lander.y = Whole(padY - 14)
  /\ lander.vx = Whole(0)
  /\ lander.vy = Whole(0)
  /\ frames > 1

\* ---- C5 ------------------------------------------------------------------
\* C5: on a frame with ground contact where a landing condition fails the
\* lander becomes crashed with y = groundY - 14; vx and vy keep the values
\* the integration of that frame gave them, and the crash changes neither
\* fuel nor angle nor the score.
C5_CrashTransition ==
  [][ Tick
        => /\ (Touching /\ ~LandingOk) => lander'.dead
           /\ lander'.dead
                => /\ MayTouch
                   /\ ~LandingClear
                   /\ lander'.y = Minus(Ground, Whole(14))
                   /\ lander'.vx = Unwrapped.vx
                   /\ lander'.vy = Unwrapped.vy
                   /\ lander'.fuel = Unwrapped.fuel
                   /\ lander'.angle = Unwrapped.angle
                   /\ score' = score ]_vars

\* A crashed lander that still has the velocity of its impact.
C5_Witness ==
  /\ lander.dead
  /\ Less(Whole(0), lander.vy)
  /\ lander.vx # Whole(0)
  /\ lander.y = Minus(terrainYAt(terrain, lander.x), Whole(14))

\* ---- C6 ------------------------------------------------------------------
\* C6: the lander is never landed and crashed at once (so it is in exactly
\* one of active, landed, crashed).
C6_StatusExclusive == ~(lander.landed /\ lander.dead)

\* A crashed lander, which is not landed, in a session begun by a reset.
C6_Witness == lander.dead /\ ~lander.landed /\ resets > 0 /\ frames > 0

\* ---- C7 ------------------------------------------------------------------
\* C7: a landed lander stays landed and a crashed one crashed as long as
\* resetGame() does not run; a step out of a terminal status is a reset,
\* which replaces the lander and the terrain by those of one new session.
C7_TerminalOneWay ==
  [][ /\ (lander.landed /\ resets' = resets) => lander'.landed
      /\ (lander.dead /\ resets' = resets) => lander'.dead
      /\ (~Active /\ Active')
           => /\ resets' = resets + 1
              /\ \E s \in Seeds :
                   /\ lander' = Sessions[s].lander
                   /\ \E t \in Sessions[s].terrains :
                        /\ terrain' = t.points
                        /\ padX' = t.padX
                        /\ padY' = t.padY ]_vars

\* A reset has replaced a crashed lander by the active one of a new session.
C7_Witness == replaced = "dead" /\ Active /\ frames = 0 /\ resets = 1

\* ---- C8 ------------------------------------------------------------------
\* C8: the message is set if and only if the lander is landed or crashed;
\* a frame sets it exactly when it has ground contact; once set it does
\* not change until a reset.
C8_OutcomeOnce ==
  /\ [](message # null <=> (lander.landed \/ lander.dead))
  /\ [][ /\ (message # null /\ resets' = resets) => message' = message
         /\ Tick => /\ Touching => message' # null
                    /\ message' # null => MayTouch ]_vars

\* The outcome of a too-fast crash, in place.
C8_Witness ==
  /\ message.text = "CRASHED - too fast!"
  /\ lander.dead
  /\ score = 0

\* ---- C9 ------------------------------------------------------------------
\* C9: between callbacks the terrain, padX and padY are those of one
\* generateTerrain() call; before the first frame after a reset the lander
\* is the one that same resetGame() created; and as long as the lander is
\* active the score is 0 and the message null.
C9_ResetAtomic ==
  /\ \E s \in Seeds :
       /\ \E t \in Sessions[s].terrains :
            /\ terrain = t.points
            /\ padX = t.padX
            /\ padY = t.padY
       /\ frames = 0 => lander = Sessions[s].lander
  /\ Active => (score = 0 /\ message = null)

\* The first frame after a reset made in flight has run.
C9_Witness == replaced = "flying" /\ frames = 1 /\ Active

\* ---- C10 -----------------------------------------------------------------
\* C10: after every frame the lander's x lies in [0, W], the domain of the
\* terrain.
C10_HorizontalBound ==
  /\ ~Less(lander.x, Whole(0))
  /\ ~Less(Whole(W), lander.x)
  /\ ~Less(lander.x, Whole(terrain[1].x))
  /\ ~Less(Whole(terrain[Len(terrain)].x), lander.x)

\* A lander that has just left through the left edge and re-entered.
C10_Witness == lander.x = Whole(W) /\ Less(lander.vx, Whole(0)) /\ Active

\* ---- C11 -----------------------------------------------------------------
\* C11: a frame that moves the lander past x = W re-enters it at the left
\* edge with the excess kept (x - W), and a frame that moves it below 0
\* re-enters it at the right edge with the excess kept (x + W).
C11_WrapKeepsOvershoot ==
  [][Tick => /\ Under(Whole(W), Unwrapped.x, TickPosSlack)
                  => lander'.x = Minus(Unwrapped.x, Whole(W))
             /\ Under(Unwrapped.x, Whole(0), TickPosSlack)
                  => lander'.x = Plus(Unwrapped.x, Whole(W))]_vars

\* ---- C12 -----------------------------------------------------------------
\* A thrust key is held.
ThrustHeld == "ArrowUp" \in keys \/ "Space" \in keys

\* C12: the fuel is an integer in [0, INITIAL_FUEL]; without a reset it never
\* increases; a frame takes exactly 1 from it if the lander is active, a
\* thrust key is held and the fuel is positive, and leaves it alone
\* otherwise; and with no fuel a held thrust key leaves the velocity to
\* gravity alone.
C12_FuelEvolution ==
  /\ [](lander.fuel \in 0 .. INITIAL_FUEL)
  /\ [][/\ resets' = resets => lander'.fuel <= lander.fuel
        /\ nEvents' = nEvents =>
             lander'.fuel = IF Active /\ ThrustHeld /\ lander.fuel > 0
                            THEN lander.fuel - 1
                            ELSE lander.fuel
        /\ (Tick /\ lander.fuel = 0 /\ Active') =>
             /\ lander'.vx = lander.vx
             /\ lander'.vy = Plus(lander.vy, Nano(25 * Micro))
             /\ ~lander'.thrusting]_vars

\* A frame has run on an empty tank with a thrust key held.
C12_Witness ==
  Active /\ lander.fuel = 0 /\ ThrustHeld /\ ~lander.thrusting /\ frames > INITIAL_FUEL

\* ---- C13 -----------------------------------------------------------------
\* The terrain point n lies in the interval of the pad.
PadPoint(n) == padX <= terrain[n].x /\ terrain[n].x <= padX + PAD_WIDTH

\* C13 as stated: a terrain point has y = padY if and only if its x lies in
\* [padX, padX + PAD_WIDTH].
C13_PadExactness ==
  \A n \in 1 .. Len(terrain) : terrain[n].y = padY <=> PadPoint(n)

\* C13, amended: every terrain point whose x lies in [padX, padX + PAD_WIDTH]
\* has y = padY, and there are such points; a point outside the interval
\* may be at that height too.
C13_PadPointsAtPadY ==
  /\ \A n \in 1 .. Len(terrain) : PadPoint(n) => terrain[n].y = padY
  /\ \E n \in 1 .. Len(terrain) : PadPoint(n)

\* A terrain with a point at the height of the pad outside of it, and with
\* a point on the right end of the pad.
C13_Witness ==
  /\ \E n \in 1 .. Len(terrain) : ~PadPoint(n) /\ terrain[n].y = padY
  /\ \E n \in 1 .. Len(terrain) : terrain[n].x = padX + PAD_WIDTH

\* ---- C14 -----------------------------------------------------------------
\* C14: every point of a generated terrain has its y in [0.45 H, H], the
\* two ends of raw, which are not clamped, lie in that range as well, and
\* the recursion has assigned every element of raw (an element computed
\* from an unassigned one stays unassigned).
C14_HeightRange ==
  /\ \A n \in 1 .. Len(terrain) :
       100 * terrain[n].y >= 45 * H /\ terrain[n].y <= H
  /\ \E s \in AllSeeds : \E t \in Sessions[s].terrains : terrain = t.points
  /\ \A s \in AllSeeds :
       (\E t \in Sessions[s].terrains : terrain = t.points) =>
         /\ \A n \in 0 .. segs - 1 : Raws[s][n] # NaN
         /\ \A n \in { 0, segs - 1 } :
              /\ ~Less(Raws[s][n], Whole((45 * H) \div 100))
              /\ ~Less(Whole(H), Raws[s][n])

\* A terrain with a displaced point on the lower limit of the clamp.
C14_Witness ==
  \E n \in 1 .. Len(terrain) : ~PadPoint(n) /\ 100 * terrain[n].y = 45 * H

\* ---- C15 -----------------------------------------------------------------
\* The line through the terrain points n and n + 1, at x.
OnSegment(n, x) ==
  Plus(Whole(terrain[n].y),
       Interpolate(Minus(x, Whole(terrain[n].x)),
                   terrain[n + 1].x - terrain[n].x,
                   terrain[n + 1].y - terrain[n].y))

\* C15: for the x of the lander, the binary search ends on a segment that
\* holds x, terrainYAt is the linear interpolation on a segment that holds
\* x, and at the x of a terrain point, the first and the last included, it
\* is the y of that point.
C15_Interpolation ==
  LET x == lander.x
      lo == Search(terrain, x, 0, Len(terrain) - 2)
  IN  /\ Len(terrain) >= 2
      /\ \A n \in 1 .. Len(terrain) - 1 : terrain[n].x < terrain[n + 1].x
      /\ ~Less(x, Whole(terrain[lo + 1].x)) /\ ~Less(Whole(terrain[lo + 2].x), x)
      /\ \E n \in 1 .. Len(terrain) - 1 :
           /\ ~Less(x, Whole(terrain[n].x)) /\ ~Less(Whole(terrain[n + 1].x), x)
           /\ terrainYAt(terrain, x) = OnSegment(n, x)
      /\ \A n \in 1 .. Len(terrain) :
           x = Whole(terrain[n].x) => terrainYAt(terrain, x) = Whole(terrain[n].y)

\* A crashed lander that update() has put on the terrain, strictly inside a
\* sloping segment.
C15_Witness ==
  /\ lander.dead
  /\ \E n \in 1 .. Len(terrain) - 1 :
       /\ Less(Whole(terrain[n].x), lander.x)
       /\ Less(lander.x, Whole(terrain[n + 1].x))
       /\ terrain[n].y # terrain[n + 1].y
       /\ Plus(lander.y, Whole(14)) = OnSegment(n, lander.x)
       /\ Plus(lander.y, Whole(14)) # Whole(terrain[n].y)

\* ---- C16 -----------------------------------------------------------------
\* C16: the angle test of the landing accepts the accumulated angle exactly
\* when it is within MAX_LAND_ANGLE of a multiple of 360 degrees; it gives
\* a, -a and a + 360 k the same answer; and a frame only adds or subtracts
\* ROTATE_SPEED, it never wraps the stored angle.
C16_SafeAngle ==
  /\ [](/\ safeAngle(lander) <=> Upright(lander.angle, 15 * AngleScale)
        /\ safeAngle([lander EXCEPT !.angle = 0 - lander.angle]) <=> safeAngle(lander)
        /\ \A k \in -2 .. 2 :
             safeAngle([lander EXCEPT !.angle = lander.angle + k * FullTurn])
               <=> safeAngle(lander))
  /\ [][Tick => lander'.angle = lander.angle
                   - (IF "ArrowLeft" \in keys THEN ROTATE_SPEED ELSE 0)
                   + (IF "ArrowRight" \in keys THEN ROTATE_SPEED ELSE 0)]_vars

\* The lander has turned more than once around and is upright again.
C16_Witness ==
  /\ lander.angle > FullTurn \/ 0 - lander.angle > FullTurn
  /\ safeAngle(lander)

\* ---- C17 -----------------------------------------------------------------
\* C17: between callbacks the legs of an active lander are above the terrain
\* under it, and a frame leaves the lander active exactly when that holds of
\* the position it has moved the lander to.  (Strictly above in the doubles:
\* in the numbers of the model, not below by more than the drift, and a
\* frame leaves the lander active where its legs are above by more than
\* the drift and only where they are not below by more.)
C17_ActiveAirborne ==
  /\ [](Active => UpTo(Plus(lander.y, Whole(14)), terrainYAt(terrain, lander.x),
                        ContactDrift(lander, frames)))
  /\ [][Tick => /\ Under(Bottom, Ground, TickContactSlack) => Active'
                /\ Active' => UpTo(Bottom, Ground, TickContactSlack)]_vars

\* An active lander whose next frame touches the ground.
C17_Witness ==
  /\ Active
  /\ frames > 1
  /\ \A m \in Integrate(lander, keys, frames + 1) :
       Under(terrainYAt(terrain, m.x), Plus(m.y, Whole(14)),
             ContactDrift(m, frames + 1))

\* ---- C18 -----------------------------------------------------------------
\* A frame in which update() does not return at once.
Frame == ~isOver(lander) /\ frames' = frames + 1

\* Every frame calls requestAnimationFrame(loop) again: frames keep coming,
\* so that update() is run again as long as it has something to do.
FairSpec == Spec /\ WF_frames(Frame)

\* C18: if frames keep coming, a lander that is active is later landed or
\* crashed, unless a reset has replaced it.
C18_SessionEnds ==
  \A n \in 0 .. MaxKeyEvents :
    (Active /\ resets = n) ~> (~Active \/ resets # n)

\* A flight that has burnt all its fuel has ended.
C18_Witness == ~Active /\ lander.fuel = 0

\* ---- C19 -----------------------------------------------------------------
\* C19: wherever the on-pad test of the landing accepts the x of the lander,
\* the terrain under it is at padY, and a landed lander rests at padY - 14.
C19_PadFlat ==
  /\ OverPad(lander.x, PosSlack) => terrainYAt(terrain, lander.x) = Whole(padY)
  /\ lander.landed => lander.y = Whole(padY - LegOffset)

\* ---- C20 -----------------------------------------------------------------
\* The crash was reported as 'too fast'.
TooFast == lander.dead /\ message.text = "CRASHED - too fast!"

\* C20 as stated: whenever the outcome is 'too fast', the vertical speed at
\* impact, which the message reports, exceeds MAX_LAND_VY (or is within its
\* drift of that limit, where the doubles may have found it above).
C20_TooFastExceedsVy == TooFast => UpTo(Whole(2), Abs(lander.vy), VelSlack)

\* C20, amended: whenever the outcome is 'too fast', the vertical speed at
\* impact exceeds MAX_LAND_VY or the horizontal speed exceeds MAX_LAND_VX,
\* and the speed the message reports is the vertical one, to two decimals:
\* within half a hundredth of it.
C20_TooFastUnsafeSpeed ==
  TooFast =>
    /\ \/ UpTo(Whole(2), Abs(lander.vy), VelSlack)
       \/ UpTo(SafeVx, Abs(lander.vx), VelSlack)
    /\ UpTo(Abs(Minus(Times100(Abs(lander.vy)), Whole(message.arg))),
            Nano(Frac \div 2), 100 * VelSlack)

\* A crash reported as too fast on the horizontal speed alone.
C20_Witness == TooFast /\ Under(Abs(lander.vy), Whole(2), VelSlack)

=============================================================================
